---- MODULE Spec2Model ----
(***************************************************************************)
(* TLS session state (src/src/tls/tls_session.cpp): the Session record,    *)
(* its DER codec (Session::DER_encode, Session::Session(ber, len)) and the *)
(* encrypted envelope (Session::encrypt, Session::decrypt).                *)
(*                                                                         *)
(* Bytes are integers 0..255 and byte strings are sequences of them.  The  *)
(* DER/BER primitives, the certificate codec and the cryptographic         *)
(* primitives (KDF, MAC, cipher) live outside this file of the repository; *)
(* they are modelled from their contract: DER as the standard encoding,    *)
(* the KDF as a free constructor and the MAC and the cipher as ideal       *)
(* primitives with lazily filled tables (macTab, encTab).                  *)
(***************************************************************************)
EXTENDS Integers, Sequences, FiniteSets, TLC

VARIABLES
  session,   \* the Session object at hand (NoSession before construction)
  ber,       \* a DER/BER byte string: DER_encode's result or bytes received
  crafted,   \* how the bytes in ber were obtained or altered
  decoded,   \* outcome of Session::Session(ber, ber_len)
  buf,       \* an encrypted blob: encrypt's result, possibly altered in storage
  origin,    \* how buf was obtained: its producer, key, draws and alteration
  macTab,    \* ideal MAC: the (key, data) pairs tagged so far, in order
  encTab,    \* ideal cipher: the (key, iv, plaintext) triples encrypted so far
  dres,      \* outcome of the last Session::decrypt call
  prevErr    \* error reported by the decrypt call before the last one

vars == <<session, ber, crafted, decoded, buf, origin, macTab, encTab, dres, prevErr>>

----------------------------------------------------------------------------
(* Bounds of the model *)

\* number of long-term keys the callers choose from
NumKeys == 2
\* number of certificates a peer chain is built from
NumCerts == 2
\* junk buffers handed to decrypt are up to this much longer than the minimum
JunkSlack == 1

Keys == 1..NumKeys
Certs == 1..NumCerts

----------------------------------------------------------------------------
(* Byte helpers *)

Pow2(n) == 2^n

XorBit(b, bit) == IF (b \div Pow2(bit)) % 2 = 1 THEN b - Pow2(bit) ELSE b + Pow2(bit)

Fill(n, v) == [i \in 1..n |-> v]

\* the part of s from 0-based offset off, len bytes long
Slice(s, off, len) == SubSeq(s, off + 1, off + len)

RECURSIVE Concat(_)
Concat(ss) == IF ss = <<>> THEN <<>> ELSE Head(ss) \o Concat(Tail(ss))

----------------------------------------------------------------------------
(* DER encoding primitives (DER_Encoder) *)

TAG_INTEGER == 2
TAG_OCTET_STRING == 4
TAG_UTF8_STRING == 12
TAG_SEQUENCE == 48

RECURSIVE BEBytes(_)
BEBytes(n) == IF n < 256 THEN <<n>> ELSE Append(BEBytes(n \div 256), n % 256)

\* contents of a non-negative INTEGER: minimal, with a leading 0 when the top bit is set
IntContent(n) == IF BEBytes(n)[1] >= 128 THEN <<0>> \o BEBytes(n) ELSE BEBytes(n)

EncodeLength(n) ==
  IF n < 128 THEN <<n>>
  ELSE IF n < 256 THEN <<129, n>>
  ELSE <<130, n \div 256, n % 256>>

TLV(tag, content) == <<tag>> \o EncodeLength(Len(content)) \o content

EncodeInt(n) == TLV(TAG_INTEGER, IntContent(n))
EncodeOctets(b) == TLV(TAG_OCTET_STRING, b)
EncodeString(s) == TLV(TAG_UTF8_STRING, s)

----------------------------------------------------------------------------
(* BER decoding primitives (BER_Decoder) *)

BerFail == [ok |-> FALSE, tag |-> 0, val |-> <<>>, rest |-> <<>>]

\* size of the header of the object at the front of b: tag and length bytes
HeaderLength(b) ==
  IF b[2] < 128 THEN 2 ELSE IF b[2] = 129 THEN 3 ELSE IF b[2] = 130 THEN 4 ELSE 0

ContentLength(b, hdr) == IF hdr = 2 THEN b[2] ELSE IF hdr = 3 THEN b[3] ELSE b[3] * 256 + b[4]

ObjectAt(b, hdr, n) ==
  IF Len(b) < hdr + n THEN BerFail
  ELSE [ok |-> TRUE, tag |-> b[1], val |-> Slice(b, hdr, n),
        rest |-> Slice(b, hdr + n, Len(b) - hdr - n)]

ObjectWithHeader(b, hdr) ==
  IF hdr = 0 \/ Len(b) < hdr THEN BerFail ELSE ObjectAt(b, hdr, ContentLength(b, hdr))

\* get_next_object: one tag-length-value from the front of b
NextObject(b) == IF Len(b) < 2 THEN BerFail ELSE ObjectWithHeader(b, HeaderLength(b))

RECURSIVE StripZeros(_)
StripZeros(c) == IF c # <<>> /\ c[1] = 0 THEN StripZeros(Tail(c)) ELSE c

RECURSIVE TopBits(_)
TopBits(b) == IF b = 0 THEN 0 ELSE 1 + TopBits(b \div 2)

\* BigInt::bits() of the decoded magnitude
MagnitudeBits(m) == IF m = <<>> THEN 0 ELSE 8 * (Len(m) - 1) + TopBits(m[1])
IntBits(c) == MagnitudeBits(StripZeros(c))

RECURSIVE IntValue(_)
IntValue(c) == IF c = <<>> THEN 0 ELSE IntValue(SubSeq(c, 1, Len(c) - 1)) * 256 + c[Len(c)]

----------------------------------------------------------------------------
(* Certificates: opaque objects with their own codec *)

\* X509_Certificate::BER_encode: a certificate is one self-delimiting SEQUENCE
CertBER(c) == TLV(TAG_SEQUENCE, EncodeInt(c))

CertFail == [ok |-> FALSE, cert |-> 0, rest |-> <<>>]

CertOf(o, i) ==
  IF i.ok /\ i.tag = TAG_INTEGER /\ i.rest = <<>> /\ IntBits(i.val) <= 8
     /\ IntValue(i.val) \in Certs
  THEN [ok |-> TRUE, cert |-> IntValue(i.val), rest |-> o.rest]
  ELSE CertFail

CertIn(o) == IF o.ok /\ o.tag = TAG_SEQUENCE THEN CertOf(o, NextObject(o.val)) ELSE CertFail

\* X509_Certificate(DataSource&): one certificate from the front of the source
DecodeOneCert(b) == CertIn(NextObject(b))

CertsFail == [ok |-> FALSE, certs |-> <<>>]

PushCert(c, r) == IF r.ok THEN [ok |-> TRUE, certs |-> <<c.cert>> \o r.certs] ELSE CertsFail

\* the loop of lines 106-107: certificates until the source is at its end
RECURSIVE DecodeCerts(_)
RECURSIVE CertsAfter(_)
CertsAfter(c) == IF c.ok THEN PushCert(c, DecodeCerts(c.rest)) ELSE CertsFail
DecodeCerts(b) ==
  IF b = <<>> THEN [ok |-> TRUE, certs |-> <<>>] ELSE CertsAfter(DecodeOneCert(b))

----------------------------------------------------------------------------
(* The Session record *)

\* the clock keeps SubTicks + 1 ticks per second; a time_point is <<seconds, ticks>>
SubTicks == 1

\* format-version marker of the encoded structure (0x2994E301)
TLS_SESSION_PARAM_STRUCT_VERSION == 697623297

CLIENT == 1
SERVER == 2

NoSession == [none |-> TRUE]

\* std::chrono::system_clock::to_time_t: whole seconds, the ticks are dropped
to_time_t(tp) == tp[1]

\* std::chrono::system_clock::from_time_t
from_time_t(secs) == <<secs, 0>>

Server_Information(hostname, service, port) ==
  [hostname |-> hostname, service |-> service, port |-> port % 65536]

\* Session::Session(session_identifier, master_secret, ...): now is what
\* system_clock::now() returns during the call
NewSession(session_identifier, master_secret, version, ciphersuite, compression_method, side, fragment_size, certs, ticket, server_info, srp_identifier, now) ==
  [start_time |-> now,
   identifier |-> session_identifier,
   session_ticket |-> ticket,
   master_secret |-> master_secret,
   version |-> version,
   ciphersuite |-> ciphersuite,
   compression_method |-> compression_method,
   connection_side |-> side,
   fragment_size |-> fragment_size,
   peer_certs |-> certs,
   server_info |-> server_info,
   srp_identifier |-> srp_identifier]

\* the loop of lines 113-115
PeerCertBits(certs) == Concat([i \in 1..Len(certs) |-> CertBER(certs[i])])


\* DER_encode with the session identifier and the session ticket in each
\* other's place
DER_fields_swapped(s) ==
  << EncodeInt(TLS_SESSION_PARAM_STRUCT_VERSION),
     EncodeInt(to_time_t(s.start_time)),
     EncodeInt(s.version[1]),
     EncodeInt(s.version[2]),
     EncodeOctets(s.session_ticket),
     EncodeOctets(s.identifier),
     EncodeInt(s.ciphersuite),
     EncodeInt(s.compression_method),
     EncodeInt(s.connection_side),
     EncodeInt(s.fragment_size),
     EncodeOctets(s.master_secret),
     EncodeOctets(PeerCertBits(s.peer_certs)),
     EncodeString(s.server_info.hostname),
     EncodeString(s.server_info.service),
     EncodeInt(s.server_info.port),
     EncodeString(s.srp_identifier) >>

\* the sixteen values of the structure, in the order lines 119-134 write them
DER_fields(s) ==
  << EncodeInt(TLS_SESSION_PARAM_STRUCT_VERSION),
     EncodeInt(to_time_t(s.start_time)),
     EncodeInt(s.version[1]),
     EncodeInt(s.version[2]),
     EncodeOctets(s.identifier),
     EncodeOctets(s.session_ticket),
     EncodeInt(s.ciphersuite),
     EncodeInt(s.compression_method),
     EncodeInt(s.connection_side),
     EncodeInt(s.fragment_size),
     EncodeOctets(s.master_secret),
     EncodeOctets(PeerCertBits(s.peer_certs)),
     EncodeString(s.server_info.hostname),
     EncodeString(s.server_info.service),
     EncodeInt(s.server_info.port),
     EncodeString(s.srp_identifier) >>

\* Session::DER_encode
DER_encode(s) == TLV(TAG_SEQUENCE, Concat(DER_fields(s)))

\* what each decode call of lines 72-88 expects: the kind of value and, for an
\* integer, the width in bits of the variable it is decoded into
FieldKind == << "int", "int", "int", "int", "oct", "oct", "int", "int",
                "int", "int", "oct", "oct", "str", "str", "int", "str" >>
FieldBits == << 32, 64, 8, 8, 0, 0, 16, 8, 8, 64, 0, 0, 0, 0, 32, 0 >>
NumFields == Len(FieldKind)

KindTag(k) == IF k = "int" THEN TAG_INTEGER
              ELSE IF k = "oct" THEN TAG_OCTET_STRING ELSE TAG_UTF8_STRING

FieldFail == [ok |-> FALSE, val |-> <<>>, rest |-> <<>>]
FieldsFail == [ok |-> FALSE, vals |-> <<>>, rest |-> <<>>]

FieldOf(o, i) ==
  IF ~o.ok \/ o.tag # KindTag(FieldKind[i]) THEN FieldFail
  ELSE IF FieldKind[i] = "int"
       THEN IF IntBits(o.val) > FieldBits[i] THEN FieldFail
            ELSE [ok |-> TRUE, val |-> <<IntValue(o.val)>>, rest |-> o.rest]
       ELSE [ok |-> TRUE, val |-> o.val, rest |-> o.rest]

\* one decode call: the next object, of the expected type and width
DecodeField(b, i) == FieldOf(NextObject(b), i)

PushField(f, r) ==
  IF r.ok THEN [ok |-> TRUE, vals |-> <<f.val>> \o r.vals, rest |-> r.rest] ELSE FieldsFail

\* the chain of decode calls from field i to the last one
RECURSIVE DecodeFields(_, _)
RECURSIVE FieldsAfter(_, _)
FieldsAfter(f, i) == IF f.ok THEN PushField(f, DecodeFields(f.rest, i + 1)) ELSE FieldsFail
DecodeFields(b, i) ==
  IF i > NumFields THEN [ok |-> TRUE, vals |-> <<>>, rest |-> b]
  ELSE FieldsAfter(DecodeField(b, i), i)

DecodeError(msg) == [ok |-> FALSE, s |-> NoSession, kind |-> "Decoding_Error", err |-> msg]

\* lines 92-108: the members set from the decoded values v
SessionOf(v, certs) ==
  IF ~certs.ok THEN DecodeError("BER: bad certificate")
  ELSE [ok |-> TRUE,
        s |-> [start_time |-> from_time_t(v[2][1]),
               identifier |-> v[5],
               session_ticket |-> v[6],
               master_secret |-> v[11],
               version |-> <<v[3][1], v[4][1]>>,
               ciphersuite |-> v[7][1],
               compression_method |-> v[8][1],
               connection_side |-> v[9][1],
               fragment_size |-> v[10][1],
               peer_certs |-> certs.certs,
               server_info |-> Server_Information(v[13], v[14], v[15][1]),
               srp_identifier |-> v[16]],
        kind |-> "", err |-> ""]

\* lines 102-108: the certificate bytes are split only when there are any
SplitCerts(bits) == IF bits # <<>> THEN DecodeCerts(bits) ELSE [ok |-> TRUE, certs |-> <<>>]


\* the decoder chain without verify_end: bytes after the container pass
AfterFields_lenient(cons, v, flds) ==
  IF ~flds.ok THEN DecodeError("BER: bad field")
  ELSE IF flds.rest # <<>> THEN DecodeError("BER: end_cons called with data left")
  ELSE SessionOf(v \o flds.vals, SplitCerts(flds.vals[11]))

\* lines 74-90: the fifteen values after the marker, end_cons and verify_end
AfterFields(cons, v, flds) ==
  IF ~flds.ok THEN DecodeError("BER: bad field")
  ELSE IF flds.rest # <<>> THEN DecodeError("BER: end_cons called with data left")
  ELSE IF cons.rest # <<>> THEN DecodeError("BER: verify_end called with data left")
  ELSE SessionOf(v \o flds.vals, SplitCerts(flds.vals[11]))

\* lines 72-73: decode_and_check of the format-version marker
AfterMarker(cons, marker) ==
  IF ~marker.ok THEN DecodeError("BER: bad field")
  ELSE IF marker.val[1] # TLS_SESSION_PARAM_STRUCT_VERSION
       THEN DecodeError("Unknown version in session structure")
  ELSE AfterFields(cons, <<marker.val>>, DecodeFields(marker.rest, 2))

\* line 71: start_cons(SEQUENCE)
InContainer(cons) ==
  IF ~cons.ok \/ cons.tag # TAG_SEQUENCE THEN DecodeError("BER: bad container")
  ELSE AfterMarker(cons, DecodeField(cons.val, 1))

\* Session::Session(const byte ber[], size_t ber_len)
SessionFromBER(b) == InContainer(NextObject(b))

----------------------------------------------------------------------------
(* Constants of the encrypted envelope (lines 152-162) *)

\* the u32bit 0x571B0E4F, kept as its two 16-bit halves <<0x571B, 0x0E4F>>
SESSION_CRYPTO_MAGIC == <<22299, 3663>>
SESSION_CRYPTO_KDF == "KDF2(SHA-256)"

MAGIC_LENGTH == 4
KEY_KDF_SALT_LENGTH == 10
MAC_KEY_LENGTH == 32
CIPHER_KEY_LENGTH == 32
CIPHER_IV_LENGTH == 16
MAC_OUTPUT_LENGTH == 32

\* block size of AES-256/CBC
BLOCK_SIZE == 16

\* length of a TLS master secret (the comment of line 215)
MASTER_SECRET_LENGTH == 48

\* store_be(u32bit, out) and load_be<u32bit>(in, 0) on the two halves
store_be(v) == << v[1] \div 256, v[1] % 256, v[2] \div 256, v[2] % 256 >>
load_be(b) == << b[1] * 256 + b[2], b[3] * 256 + b[4] >>

----------------------------------------------------------------------------
(* The cryptographic primitives, as ideal primitives *)

\* KDF::derive_key: a free constructor, equal outputs only for equal inputs
derive_key(len, secret, salt) == <<SESSION_CRYPTO_KDF, len, secret, salt>>

\* position of the query in the table; a new query gets the next free position
TabIndex(tab, q) ==
  IF \E i \in 1..Len(tab) : tab[i] = q
  THEN CHOOSE i \in 1..Len(tab) : tab[i] = q
  ELSE Len(tab) + 1

TabRecord(tab, q) == IF \E i \in 1..Len(tab) : tab[i] = q THEN tab ELSE Append(tab, q)

\* the tag the ideal MAC gives its i-th distinct query
TagBytes(i) == [j \in 1..MAC_OUTPUT_LENGTH |-> (i * 37 + j * 5) % 256]

\* mac->set_key(key); mac->update(data); mac->final()
MacFinal(tab, key, data) == TagBytes(TabIndex(tab, <<key, data>>))

\* length of the CBC ciphertext of n bytes: padded to whole blocks, always padded
PaddedLength(n) == BLOCK_SIZE * (n \div BLOCK_SIZE + 1)

\* the ciphertext the ideal cipher gives its i-th distinct query
CtBytes(i, n) == [j \in 1..n |-> (i * 59 + j * 3) % 256]

\* Pipe(get_cipher(..., ENCRYPTION)).process_msg(pt)
CipherEncrypt(tab, key, iv, pt) == CtBytes(TabIndex(tab, <<key, iv, pt>>), PaddedLength(Len(pt)))

\* what a decryption the ideal cipher never produced may turn out to be
Undefined == { [garbage |-> "padding", stray |-> 0],
               [garbage |-> "junk", stray |-> 0],
               [garbage |-> "session", stray |-> 255] }

\* the table entries whose ciphertext under key and iv is ct
Hits(tab, key, iv, ct) ==
  { i \in 1..Len(tab) : /\ tab[i][1] = key /\ tab[i][2] = iv
                        /\ CtBytes(i, PaddedLength(Len(tab[i][3]))) = ct }

Decrypted(tab, hit, u) ==
  IF hit # {} THEN [ok |-> TRUE, pt |-> tab[CHOOSE i \in hit : TRUE][3], how |-> "known"]
  ELSE IF u.garbage = "padding" THEN [ok |-> FALSE, pt |-> <<>>, how |-> "padding"]
  ELSE [ok |-> TRUE, pt |-> <<>>, how |-> u.garbage]

\* Pipe(get_cipher(..., DECRYPTION)).process_msg(ct): the plaintext of a known
\* ciphertext; anything else decrypts to garbage
CipherDecrypt(tab, key, iv, ct, u) ==
  IF Len(ct) = 0 \/ Len(ct) % BLOCK_SIZE # 0 THEN [ok |-> FALSE, pt |-> <<>>, how |-> "length"]
  ELSE Decrypted(tab, Hits(tab, key, iv, ct), u)

----------------------------------------------------------------------------
(* Session::encrypt (lines 166-208) *)

\* rng.random_vec(n): the next n bytes of the generator's output stream
random_vec(rng, off, n) == Slice(rng, off, n)

\* lines 172-176 and 188: the three draws, in the order the code makes them
EncryptCipherKeySalt(rng) == random_vec(rng, 0, KEY_KDF_SALT_LENGTH)
EncryptMacKeySalt(rng) == random_vec(rng, KEY_KDF_SALT_LENGTH, KEY_KDF_SALT_LENGTH)
EncryptIV(rng) == random_vec(rng, 2 * KEY_KDF_SALT_LENGTH, 16)


\* the header with the two salts written in each other's place
EncryptHeader_swapped(cipher_key_salt, mac_key_salt, cipher_iv, ctext) ==
  store_be(SESSION_CRYPTO_MAGIC) \o mac_key_salt \o cipher_key_salt \o cipher_iv \o ctext

\* lines 197-202: the output before the tag
EncryptHeader(cipher_key_salt, mac_key_salt, cipher_iv, ctext) ==
  store_be(SESSION_CRYPTO_MAGIC) \o cipher_key_salt \o mac_key_salt \o cipher_iv \o ctext


\* the MAC of encrypt fed from after the magic
EncryptMacInput_body(out) == SubSeq(out, MAGIC_LENGTH + 1, Len(out))

\* line 204: what the MAC is computed over
EncryptMacInput(out) == out

\* lines 204-207: the tag over the output so far is appended
Tagged(out, mac_key, mt, et2) ==
  [out |-> out \o MacFinal(mt, mac_key, EncryptMacInput(out)),
   macTab |-> TabRecord(mt, <<mac_key, EncryptMacInput(out)>>),
   encTab |-> et2]

\* lines 178-202 for the given draws
Enveloped(pt, master_key, cipher_key_salt, mac_key_salt, cipher_iv, mt, et) ==
  Tagged(EncryptHeader(cipher_key_salt, mac_key_salt, cipher_iv,
                       CipherEncrypt(et, derive_key(CIPHER_KEY_LENGTH, master_key, cipher_key_salt),
                                     cipher_iv, pt)),
         derive_key(MAC_KEY_LENGTH, master_key, mac_key_salt),
         mt,
         TabRecord(et, <<derive_key(CIPHER_KEY_LENGTH, master_key, cipher_key_salt), cipher_iv, pt>>))

\* the envelope around a plaintext: lines 170-207 with the plaintext of line 194
Envelope(pt, master_key, rng, mt, et) ==
  Enveloped(pt, master_key, EncryptCipherKeySalt(rng), EncryptMacKeySalt(rng), EncryptIV(rng), mt, et)

\* Session::encrypt
encrypt(s, master_key, rng, mt, et) == Envelope(DER_encode(s), master_key, rng, mt, et)

----------------------------------------------------------------------------
(* Session::decrypt (lines 210-269) *)


\* a minimum of three cipher blocks
MIN_CTEXT_SIZE_three == 3 * 16

MIN_CTEXT_SIZE == 4 * 16


\* a length check that only makes sure the magic can be read
MinBlobLength_magic == MAGIC_LENGTH

\* the bound of the length check, lines 217-221
MinBlobLength ==
  MAGIC_LENGTH + 2 * KEY_KDF_SALT_LENGTH + CIPHER_IV_LENGTH + MIN_CTEXT_SIZE + MAC_OUTPUT_LENGTH

CTEXT_OFFSET == MAGIC_LENGTH + 2 * KEY_KDF_SALT_LENGTH + CIPHER_IV_LENGTH

\* the lengths the code computes by subtraction (lines 241, 244 and 259); a
\* negative value is a size_t that wrapped around
MacInputLength(buf_len) == buf_len - MAC_OUTPUT_LENGTH
CtextLength(buf_len) == buf_len - (MAC_OUTPUT_LENGTH + CTEXT_OFFSET)

\* a read of len bytes at offset off of the buffer; bytes outside the buffer
\* are whatever memory holds there
ReadBuf(b, off, len, u) ==
  [i \in 1..len |-> IF off + i >= 1 /\ off + i <= Len(b) THEN b[off + i] ELSE u.stray]


\* a comparison one byte short
same_mem_short(stored, computed) ==
  SubSeq(stored, 1, Len(computed) - 1) = SubSeq(computed, 1, Len(computed) - 1)

\* same_mem(stored, computed, computed.size()), line 244
same_mem(stored, computed) == stored = computed

FAILED_PREFIX == "Failed to decrypt encrypted session -"

NoResult == [status |-> "none"]

\* lines 264-268: every exception leaves decrypt as a Decoding_Error whose
\* message is the prefix followed by the text of the exception caught
Rethrow(what, calls, reads, lens) ==
  [status |-> "err", s |-> NoSession, kind |-> "Decoding_Error",
   msg |-> <<FAILED_PREFIX, what>>, calls |-> calls, reads |-> reads, lens |-> lens,
   plain |-> <<>>]

Returned(s, calls, reads, lens, plain) ==
  [status |-> "ok", s |-> s, kind |-> "", msg |-> <<"", "">>,
   calls |-> calls, reads |-> reads, lens |-> lens, plain |-> plain]

\* earlier steps put in front of the outcome of the later ones
After(calls, reads, lens, r) ==
  [r EXCEPT !.calls = calls \o @, !.reads = reads \o @, !.lens = lens \o @]

\* the session, or the exception, that leaves the decoding constructor
Decoded(d, plain) ==
  IF d.ok THEN Returned(d.s, <<"decode">>, <<>>, <<>>, plain)
  ELSE Rethrow(d.err, <<"decode">>, <<>>, <<>>)

\* line 262: the decoding constructor on the decrypted bytes
DecodeStage(cd) ==
  IF cd.how = "known" THEN Decoded(SessionFromBER(cd.pt), cd.pt)
  ELSE IF cd.how = "session"
       THEN Returned([garbage |-> TRUE], <<"decode">>, <<>>, <<>>, cd.pt)
       ELSE Rethrow("BER: bad container", <<"decode">>, <<>>, <<>>)

CipherReads(buf_len) ==
  << <<MAGIC_LENGTH, KEY_KDF_SALT_LENGTH>>,
     <<MAGIC_LENGTH + 2 * KEY_KDF_SALT_LENGTH, CIPHER_IV_LENGTH>>,
     <<CTEXT_OFFSET, CtextLength(buf_len)>> >>

AfterCipher(cd, buf_len) ==
  IF cd.ok
  THEN After(<<"kdf_cipher_key", "cipher">>, CipherReads(buf_len), <<CtextLength(buf_len)>>,
             DecodeStage(cd))
  ELSE Rethrow("cipher: bad input", <<"kdf_cipher_key", "cipher">>, CipherReads(buf_len),
               <<CtextLength(buf_len)>>)

\* lines 247-260: cipher key, IV, decryption of the ciphertext
CipherStage(b, master_key, et, u) ==
  AfterCipher(CipherDecrypt(et,
                            derive_key(CIPHER_KEY_LENGTH, master_key,
                                       ReadBuf(b, MAGIC_LENGTH, KEY_KDF_SALT_LENGTH, u)),
                            ReadBuf(b, MAGIC_LENGTH + 2 * KEY_KDF_SALT_LENGTH, CIPHER_IV_LENGTH, u),
                            ReadBuf(b, CTEXT_OFFSET, CtextLength(Len(b)), u),
                            u),
              Len(b))

MacReads(buf_len) ==
  << <<MAGIC_LENGTH + KEY_KDF_SALT_LENGTH, KEY_KDF_SALT_LENGTH>>,
     <<0, MacInputLength(buf_len)>>,
     <<MacInputLength(buf_len), MAC_OUTPUT_LENGTH>> >>

\* line 241-242: the MAC, under the key of lines 231-236, of all but the tag
ComputedMac(b, master_key, mt, u) ==
  MacFinal(mt,
           derive_key(MAC_KEY_LENGTH, master_key,
                      ReadBuf(b, MAGIC_LENGTH + KEY_KDF_SALT_LENGTH, KEY_KDF_SALT_LENGTH, u)),
           ReadBuf(b, 0, MacInputLength(Len(b)), u))


\* the MAC stage with the result of the comparison ignored
MacStage_unchecked(b, master_key, mt, et, u) ==
  After(<<"kdf_mac_key", "mac", "same_mem">>, MacReads(Len(b)),
        <<MacInputLength(Len(b))>>, CipherStage(b, master_key, et, u))

\* the MAC stage with the cipher key derived before the tags are compared
MacStage_eager(b, master_key, mt, et, u) ==
  IF ~same_mem(ReadBuf(b, MacInputLength(Len(b)), MAC_OUTPUT_LENGTH, u),
               ComputedMac(b, master_key, mt, u))
  THEN Rethrow("MAC verification failed for encrypted session",
               <<"kdf_mac_key", "mac", "kdf_cipher_key", "same_mem">>,
               MacReads(Len(b)) \o << <<MAGIC_LENGTH, KEY_KDF_SALT_LENGTH>> >>,
               <<MacInputLength(Len(b))>>)
  ELSE After(<<"kdf_mac_key", "mac", "same_mem">>, MacReads(Len(b)),
             <<MacInputLength(Len(b))>>, CipherStage(b, master_key, et, u))

\* lines 229-245: MAC key, MAC over all but the tag, comparison with the tag
MacStage(b, master_key, mt, et, u) ==
  IF ~same_mem(ReadBuf(b, MacInputLength(Len(b)), MAC_OUTPUT_LENGTH, u),
               ComputedMac(b, master_key, mt, u))
  THEN Rethrow("MAC verification failed for encrypted session",
               <<"kdf_mac_key", "mac", "same_mem">>, MacReads(Len(b)),
               <<MacInputLength(Len(b))>>)
  ELSE After(<<"kdf_mac_key", "mac", "same_mem">>, MacReads(Len(b)),
             <<MacInputLength(Len(b))>>, CipherStage(b, master_key, et, u))

\* lines 224-225: the magic value
MagicStage(b, master_key, mt, et, u) ==
  IF load_be(ReadBuf(b, 0, MAGIC_LENGTH, u)) # SESSION_CRYPTO_MAGIC
  THEN Rethrow("Unknown header value in encrypted session",
               <<"magic_check">>, << <<0, MAGIC_LENGTH>> >>, <<>>)
  ELSE After(<<"magic_check">>, << <<0, MAGIC_LENGTH>> >>, <<>>,
             MacStage(b, master_key, mt, et, u))

\* Session::decrypt
decrypt(b, master_key, mt, et, u) ==
  IF Len(b) < MinBlobLength
  THEN Rethrow("Encrypted TLS session too short to be valid", <<"length_check">>, <<>>, <<>>)
  ELSE After(<<"length_check">>, <<>>, <<>>, MagicStage(b, master_key, mt, et, u))

----------------------------------------------------------------------------
(* Inputs of the model *)

\* master secrets a caller hands to the constructor
MasterSecrets == { <<>>, Fill(MASTER_SECRET_LENGTH, 7) }

\* what system_clock::now() returns when a session is constructed
Nows == { <<1352000000, 0>>, <<1352000000, SubTicks>> }

\* the other constructor arguments: a sparse session and a full one
Profiles ==
  { [identifier |-> <<>>, ticket |-> <<>>, version |-> <<3, 1>>, ciphersuite |-> 47,
     compression_method |-> 0, side |-> SERVER, fragment_size |-> 0, certs |-> <<>>,
     server_info |-> Server_Information(<<>>, <<>>, 0), srp_identifier |-> <<>>],
    [identifier |-> <<1, 2>>, ticket |-> <<9>>, version |-> <<3, 3>>, ciphersuite |-> 49199,
     compression_method |-> 1, side |-> CLIENT, fragment_size |-> 16384,
     certs |-> [i \in 1..NumCerts |-> i],
     server_info |-> Server_Information(<<101, 120>>, <<104>>, 443),
     srp_identifier |-> <<117>>] }

\* encoded sessions received from storage: written at the start of the epoch,
\* with nothing but the mandatory values
ReceivedSessions ==
  { [start_time |-> <<0, 0>>, identifier |-> <<>>, session_ticket |-> <<>>,
     master_secret |-> ms, version |-> <<3, 1>>, ciphersuite |-> 47,
     compression_method |-> 0, connection_side |-> SERVER, fragment_size |-> 0,
     peer_certs |-> <<>>, server_info |-> Server_Information(<<>>, <<>>, 0),
     srp_identifier |-> <<>>] : ms \in MasterSecrets }

\* output streams of the random number generator: one of distinct bytes, one constant
RngLength == 2 * KEY_KDF_SALT_LENGTH + 16
RngStreams == { [i \in 1..RngLength |-> i], [i \in 1..RngLength |-> 171] }

NoDecode == [ok |-> FALSE, s |-> NoSession, kind |-> "none", err |-> ""]
NoOrigin == [by |-> "none", key |-> 0, rng |-> <<>>, alt |-> "none", pos |-> 0]
NoErr == <<"", <<"", "">> >>

----------------------------------------------------------------------------
(* The state machine *)

Init ==
  /\ session = NoSession
  /\ ber = <<>>
  /\ crafted = <<"none", 0>>
  /\ decoded = NoDecode
  /\ buf = <<>>
  /\ origin = NoOrigin
  /\ macTab = <<>>
  /\ encTab = <<>>
  /\ dres = NoResult
  /\ prevErr = NoErr

Fresh == session = NoSession /\ crafted[1] = "none" /\ origin.by = "none"

\* Session::Session(session_identifier, master_secret, ...), lines 21-45
Construct ==
  /\ Fresh /\ prevErr = NoErr
  /\ \E ms \in MasterSecrets, now \in Nows, p \in Profiles :
       session' = NewSession(p.identifier, ms, p.version, p.ciphersuite,
                             p.compression_method, p.side, p.fragment_size, p.certs,
                             p.ticket, p.server_info, p.srp_identifier, now)
  /\ UNCHANGED <<ber, crafted, decoded, buf, origin, macTab, encTab, dres, prevErr>>

\* an encoded session arrives from storage
ReceiveBER ==
  /\ Fresh /\ prevErr = NoErr
  /\ \E r \in ReceivedSessions : ber' = DER_encode(r)
  /\ crafted' = <<"received", 0>>
  /\ UNCHANGED <<session, decoded, buf, origin, macTab, encTab, dres, prevErr>>

\* Session::DER_encode, lines 111-137
DEREncode ==
  /\ session # NoSession /\ crafted[1] = "none" /\ origin.by = "none"
  /\ ber' = DER_encode(session)
  /\ crafted' = <<"encoded", 0>>
  /\ UNCHANGED <<session, decoded, buf, origin, macTab, encTab, dres, prevErr>>

Recontain(fields) == TLV(TAG_SEQUENCE, Concat(fields))

Without(fields, i) == [j \in 1..(Len(fields) - 1) |-> IF j < i THEN fields[j] ELSE fields[j + 1]]

Swapped(fields, i) ==
  [j \in 1..Len(fields) |-> IF j = i THEN fields[i + 1] ELSE IF j = i + 1 THEN fields[i] ELSE fields[j]]

\* the encoded bytes are altered before they are decoded: written by another
\* version of the format, damaged in storage, or rearranged
Alter ==
  /\ crafted[1] = "encoded" /\ decoded = NoDecode /\ origin.by = "none"
  /\ \/ /\ ber' = Recontain([DER_fields(session) EXCEPT
                                ![1] = EncodeInt(TLS_SESSION_PARAM_STRUCT_VERSION - 1)])
        /\ crafted' = <<"marker", 1>>
     \/ \E i \in 1..NumFields :
          ber' = Recontain(Without(DER_fields(session), i)) /\ crafted' = <<"missing", i>>
     \/ \E i \in 1..(NumFields - 1) :
          ber' = Recontain(Swapped(DER_fields(session), i)) /\ crafted' = <<"swapped", i>>
     \/ ber' = Recontain(Append(DER_fields(session), EncodeInt(0))) /\ crafted' = <<"extra", 0>>
     \/ ber' = ber \o <<0>> /\ crafted' = <<"trailing", 0>>
     \/ /\ ber' = Recontain([DER_fields(session) EXCEPT ![12] =
                     EncodeOctets(PeerCertBits(session.peer_certs) \o <<TAG_SEQUENCE>>)])
        /\ crafted' = <<"certs", 12>>
     \/ \E n \in 0..(Len(ber) - 1) :
          ber' = SubSeq(ber, 1, n) /\ crafted' = <<"truncated", n>>
  /\ UNCHANGED <<session, decoded, buf, origin, macTab, encTab, dres, prevErr>>

\* Session::Session(const byte ber[], size_t ber_len), lines 54-109
DecodeBER ==
  /\ crafted[1] # "none" /\ decoded = NoDecode /\ origin.by = "none"
  /\ decoded' = SessionFromBER(ber)
  /\ UNCHANGED <<session, ber, crafted, buf, origin, macTab, encTab, dres, prevErr>>

\* *this = Session(&der[0], der.size()), line 51: the decoded session becomes
\* the session at hand
Assign ==
  /\ session = NoSession /\ decoded.ok
  /\ session' = decoded.s
  /\ ber' = <<>>
  /\ crafted' = <<"none", 0>>
  /\ decoded' = NoDecode
  /\ UNCHANGED <<buf, origin, macTab, encTab, dres, prevErr>>

\* the blob and the primitives' tables after a call of encrypt
Produced(e) == buf' = e.out /\ macTab' = e.macTab /\ encTab' = e.encTab

\* Session::encrypt, lines 166-208
Encrypt ==
  /\ session # NoSession /\ crafted[1] = "none" /\ origin.by = "none"
  /\ \E k \in Keys, rng \in RngStreams :
       /\ Produced(encrypt(session, k, rng, macTab, encTab))
       /\ origin' = [by |-> "encrypt", key |-> k, rng |-> rng, alt |-> "none", pos |-> 0]
  /\ UNCHANGED <<session, ber, crafted, decoded, dres, prevErr>>

\* a holder of the key wraps a structure of the previous format version in the
\* same envelope
Seal ==
  /\ crafted[1] = "marker" /\ decoded = NoDecode /\ origin.by = "none"
  /\ \E k \in Keys, rng \in RngStreams :
       /\ Produced(Envelope(ber, k, rng, macTab, encTab))
       /\ origin' = [by |-> "seal", key |-> k, rng |-> rng, alt |-> "none", pos |-> 0]
  /\ UNCHANGED <<session, ber, crafted, decoded, dres, prevErr>>

BitPositions == 0..7

\* one bit of the stored blob flips
FlipBit ==
  /\ origin.by = "encrypt" /\ origin.alt = "none" /\ dres = NoResult
  /\ \E pos \in 1..Len(buf), bit \in BitPositions :
       /\ buf' = [buf EXCEPT ![pos] = XorBit(@, bit)]
       /\ origin' = [origin EXCEPT !.alt = "flip", !.pos = pos]
  /\ UNCHANGED <<session, ber, crafted, decoded, macTab, encTab, dres, prevErr>>

\* the stored blob loses its end
Truncate ==
  /\ origin.by = "encrypt" /\ origin.alt = "none" /\ dres = NoResult
  /\ \E n \in 0..(Len(buf) - 1) :
       /\ buf' = SubSeq(buf, 1, n)
       /\ origin' = [origin EXCEPT !.alt = "truncate", !.pos = n]
  /\ UNCHANGED <<session, ber, crafted, decoded, macTab, encTab, dres, prevErr>>

\* a buffer that no encrypt call produced is handed to decrypt: at first, or
\* as the next call after such a buffer was refused or accepted
ReceiveBuf ==
  /\ \/ Fresh /\ prevErr = NoErr
     \/ origin.by = "junk" /\ dres # NoResult /\ prevErr = NoErr
  /\ \E n \in 0..(MinBlobLength + JunkSlack), magic \in BOOLEAN :
       /\ buf' = IF magic /\ n >= MAGIC_LENGTH
                 THEN store_be(SESSION_CRYPTO_MAGIC) \o Fill(n - MAGIC_LENGTH, 0)
                 ELSE Fill(n, 0)
       /\ origin' = [by |-> "junk", key |-> 0, rng |-> <<>>, alt |-> "none", pos |-> n]
  /\ prevErr' = IF dres.status = "err" THEN <<dres.kind, dres.msg>> ELSE NoErr
  /\ dres' = NoResult
  /\ UNCHANGED <<session, ber, crafted, decoded, macTab, encTab>>

\* Session::decrypt, lines 210-269
Decrypt ==
  /\ origin.by # "none" /\ dres = NoResult
  /\ \E k \in Keys, u \in Undefined :
       dres' = [call |-> k] @@ decrypt(buf, k, macTab, encTab, u)
  /\ UNCHANGED <<session, ber, crafted, decoded, buf, origin, macTab, encTab, prevErr>>

Next ==
  \/ Construct
  \/ ReceiveBER
  \/ DEREncode
  \/ Alter
  \/ DecodeBER
  \/ Assign
  \/ Encrypt
  \/ Seal
  \/ FlipBit
  \/ Truncate
  \/ ReceiveBuf
  \/ Decrypt

Spec == Init /\ [][Next]_vars

----------------------------------------------------------------------------
(* Properties *)

Has(s, x) == \E i \in 1..Len(s) : s[i] = x
IsPrefix(p, s) == Len(p) <= Len(s) /\ p = SubSeq(s, 1, Len(p))

\* decrypt has been called on buf
Called == dres.status # "none"
\* buf is what encrypt returned for session, unaltered
Genuine == origin.by = "encrypt" /\ origin.alt = "none"
\* decrypt was called with the key encrypt was called with
SameKey == dres.call = origin.key

\* session as it is after a whole number of seconds: the ticks dropped
WholeSeconds(s) == [s EXCEPT !.start_time = <<s.start_time[1], 0>>]

\* C1 as stated: decrypt with K of R.encrypt(K, rng) succeeds and returns a
\* record equal to R in every field, for every record the constructors accept,
\* and every blob encrypt produces is at least 136 bytes long.
C1_RoundTripExact ==
  /\ (Genuine => Len(buf) >= 136)
  /\ (Genuine /\ Called /\ SameKey) => (dres.status = "ok" /\ dres.s = session)

\* C1 amended: for every record R whose encoding is at least 48 bytes long (in
\* particular every record with a master secret of 48 bytes), every key K and
\* all draws, the blob is at least 136 bytes long and decrypt with K succeeds
\* and returns a record equal to R in every field, the creation time being R's
\* truncated to whole seconds.
C1_RoundTrip ==
  (Genuine /\ Len(DER_encode(session)) >= 48) =>
    /\ Len(buf) >= 136
    /\ (Called /\ SameKey) => (dres.status = "ok" /\ dres.s = WholeSeconds(session))

C1_Witness ==
  /\ Genuine /\ Called /\ SameKey /\ dres.status = "ok"
  /\ Len(session.master_secret) = 48 /\ session.peer_certs # <<>>
  /\ session.start_time[2] # 0

\* C2: decrypt, with the key of encrypt, of a blob of encrypt with one bit
\* flipped fails with an error and returns no Session, wherever the bit is.
C2_TamperDetected ==
  (origin.by = "encrypt" /\ origin.alt = "flip" /\ Called /\ SameKey) =>
    (dres.status = "err" /\ dres.s = NoSession)

C2_Witness ==
  /\ origin.by = "encrypt" /\ origin.alt = "flip" /\ Called /\ SameKey
  /\ origin.pos > Len(buf) - 32 /\ Len(buf) >= 136 /\ dres.status = "err"

\* C3 as stated: decrypt with K2 of a blob made with K1 # K2 fails, and the
\* failure is raised at MAC verification, before the cipher key is derived.
C3_KeyMismatchAtMac ==
  (Genuine /\ Called /\ ~SameKey) =>
    /\ dres.status = "err" /\ dres.s = NoSession
    /\ dres.msg[2] = "MAC verification failed for encrypted session"
    /\ ~Has(dres.calls, "kdf_cipher_key") /\ ~Has(dres.calls, "cipher")

\* C3 amended: decrypt with K2 of a blob made with K1 # K2 fails with an error
\* and returns no Session, before the cipher key is derived or any ciphertext
\* is decrypted; the failure is raised at MAC verification when the blob is at
\* least 136 bytes long and at the length check when it is shorter.
C3_KeyMismatch ==
  (Genuine /\ Called /\ ~SameKey) =>
    /\ dres.status = "err" /\ dres.s = NoSession
    /\ ~Has(dres.calls, "kdf_cipher_key") /\ ~Has(dres.calls, "cipher")
    /\ ~Has(dres.calls, "decode")
    /\ dres.msg[2] = IF Len(buf) >= 136
                     THEN "MAC verification failed for encrypted session"
                     ELSE "Encrypted TLS session too short to be valid"

C3_Witness ==
  /\ Genuine /\ Called /\ ~SameKey /\ Len(buf) >= 136
  /\ dres.msg[2] = "MAC verification failed for encrypted session"

\* C4 as stated: a Session constructed from R.DER_encode() equals R in every
\* field, the creation time included.
C4_CodecRoundTripExact ==
  (crafted[1] = "encoded" /\ decoded.kind # "none") => (decoded.ok /\ decoded.s = session)

\* C4 amended: a Session constructed from R.DER_encode() equals R in every
\* field (empty ticket, chain and SRP identifier decode to empty ones), except
\* that its creation time is R's truncated to whole seconds.
C4_CodecRoundTrip ==
  (crafted[1] = "encoded" /\ decoded.kind # "none") =>
    (decoded.ok /\ decoded.s = WholeSeconds(session))

C4_Witness ==
  /\ crafted[1] = "encoded" /\ decoded.ok
  /\ Len(session.peer_certs) >= 2 /\ session.start_time[2] # 0

\* C5: any two failing calls of decrypt report the same error kind and the
\* same error message.
C5_UniformFailure ==
  (dres.status = "err" /\ prevErr # NoErr) => <<dres.kind, dres.msg>> = prevErr

\* C6 as stated: a buffer shorter than 136 bytes is refused without a read;
\* every read lies inside the buffer; the lengths computed by subtraction are
\* buf_len - 32 for the MAC input and buf_len - 94 for the ciphertext, and
\* are not negative.
C6_TruncationSafe94 ==
  Called =>
    /\ (Len(buf) < 136 => dres.status = "err" /\ dres.reads = <<>>)
    /\ \A i \in 1..Len(dres.reads) :
         dres.reads[i][1] >= 0 /\ dres.reads[i][2] >= 0
         /\ dres.reads[i][1] + dres.reads[i][2] <= Len(buf)
    /\ IsPrefix(dres.lens, <<Len(buf) - 32, Len(buf) - 94>>)
    /\ \A i \in 1..Len(dres.lens) : dres.lens[i] >= 0

\* C6 amended: as stated, with the length of the ciphertext being
\* buf_len - 72 (32 bytes of tag and 40 bytes before the ciphertext).
C6_TruncationSafe ==
  Called =>
    /\ (Len(buf) < 136 => dres.status = "err" /\ dres.reads = <<>>)
    /\ \A i \in 1..Len(dres.reads) :
         dres.reads[i][1] >= 0 /\ dres.reads[i][2] >= 0
         /\ dres.reads[i][1] + dres.reads[i][2] <= Len(buf)
    /\ IsPrefix(dres.lens, <<Len(buf) - 32, Len(buf) - 72>>)
    /\ \A i \in 1..Len(dres.lens) : dres.lens[i] >= 0

C6_Witness ==
  /\ Called /\ Len(buf) = 136 /\ Len(dres.lens) = 2 /\ origin.alt = "none"

\* the steps of decrypt, in the order C7 states
StepOrder ==
  << "length_check", "magic_check", "kdf_mac_key", "mac", "same_mem",
     "kdf_cipher_key", "cipher", "decode" >>

\* the tag at the end of buf is the MAC, under the key derived from k and the
\* salt at offset 14, of all the bytes before it
TagIsMacUnder(k) ==
  /\ Len(buf) >= 32 + 24
  /\ \E i \in 1..Len(macTab) :
       /\ macTab[i] = << derive_key(32, k, SubSeq(buf, 15, 24)), SubSeq(buf, 1, Len(buf) - 32) >>
       /\ TagBytes(i) = SubSeq(buf, Len(buf) - 31, Len(buf))

\* C7: the steps of decrypt occur in the stated order; the cipher key is
\* derived, the cipher invoked and the decoder run only when the length check,
\* the magic check and the MAC comparison have succeeded; a wrong magic is
\* refused before any KDF or MAC call.
C7_AuthenticateFirst ==
  Called =>
    /\ IsPrefix(dres.calls, StepOrder)
    /\ (Has(dres.calls, "kdf_cipher_key") \/ Has(dres.calls, "cipher") \/ Has(dres.calls, "decode"))
         => /\ Len(buf) >= 136
            /\ SubSeq(buf, 1, 4) = <<87, 27, 14, 79>>
            /\ TagIsMacUnder(dres.call)
    /\ (Len(buf) >= 136 /\ SubSeq(buf, 1, 4) # <<87, 27, 14, 79>>)
         => dres.calls = <<"length_check", "magic_check">>

C7_Witness == Called /\ dres.calls = StepOrder /\ dres.status = "err"

\* C8: the output of encrypt is magic (57 1B 0E 4F), the first draw (cipher
\* key salt, 10 bytes), the second draw (MAC key salt, 10), the third draw
\* (IV, 16), the ciphertext under the key derived from the first salt, and
\* the 32-byte MAC, under the key derived from the second salt, of all the
\* bytes before it; decrypt reads the fields at offsets 0, 14, 4, 24, 40 and
\* buf_len - 32 and authenticates the bytes before the tag.
C8_Layout ==
  /\ Genuine =>
       /\ SubSeq(buf, 1, 4) = <<87, 27, 14, 79>>
       /\ SubSeq(buf, 5, 14) = SubSeq(origin.rng, 1, 10)
       /\ SubSeq(buf, 15, 24) = SubSeq(origin.rng, 11, 20)
       /\ SubSeq(buf, 25, 40) = SubSeq(origin.rng, 21, 36)
       /\ \E i \in 1..Len(encTab) :
            /\ encTab[i] = << derive_key(32, origin.key, SubSeq(origin.rng, 1, 10)),
                              SubSeq(origin.rng, 21, 36), DER_encode(session) >>
            /\ SubSeq(buf, 41, Len(buf) - 32) = CtBytes(i, Len(buf) - 72)
            /\ Len(buf) - 72 = 16 * (Len(DER_encode(session)) \div 16 + 1)
       /\ TagIsMacUnder(origin.key)
  /\ Called =>
       IsPrefix(dres.reads, << <<0, 4>>, <<14, 10>>, <<0, Len(buf) - 32>>,
                               <<Len(buf) - 32, 32>>, <<4, 10>>, <<24, 16>>,
                               <<40, Len(buf) - 72>> >>)

C8_Witness == Genuine /\ Called /\ Len(dres.reads) = 7 /\ origin.rng[1] # origin.rng[11]

C10_MasterSecretFloor ==
  /\ dres.status = "ok" => Len(dres.s.master_secret) >= 48
  /\ decoded.ok => Len(decoded.s.master_secret) >= 48

\* C10 amended: decrypt returns a Session only for a buffer of at least 136
\* bytes, that is for an encoded record of at least 48 bytes; the length of the
\* master secret is checked nowhere, and the Session returned by decrypt or by
\* the decoding constructor carries the master secret as encoded, of any length.
C10_LengthFloor ==
  /\ dres.status = "ok" =>
       /\ Len(buf) >= 136 /\ Len(dres.plain) >= 48
       /\ dres.s.master_secret = session.master_secret
  /\ (decoded.ok /\ crafted[1] = "encoded") =>
       decoded.s.master_secret = session.master_secret

C10_Witness == dres.status = "ok" /\ Len(dres.s.master_secret) < 48 /\ Len(buf) >= 136

====
